---- MODULE Spec2Model ----
(***************************************************************************)
(* Model of pkg/controllers/wireguardnode.go: the WireguardNodeReconciler  *)
(* (peer cache, Reconcile, Annotate, ReconcilePeer, hydrateCache) together *)
(* with the two collaborators it talks to: the node store behind           *)
(* client.Client (Get / List / Update) and the WireGuard device behind     *)
(* wgctrl (ConfigureDevice).                                                *)
(*                                                                         *)
(* One Reconcile invocation is a sequence of steps of one worker; every    *)
(* step is one access to shared state (the cache, the node store, the     *)
(* device), so that two workers interleave exactly where two goroutines    *)
(* can.  Spec dispatches one invocation at a time, SpecConc two.           *)
(***************************************************************************)
EXTENDS Naturals, Sequences, FiniteSets, TLC

\* ------------------------------------------------------------------ bounds
\* How many times the node store may change a record during one behaviour.
MaxEvents == 2
\* The same, in the behaviours with two workers.
MaxConcEvents == 1
\* Cap of the per-host counter of successful add/update device calls.
MaxCount == 2

\* ----------------------------------------------------------- the universe
\* r.NodeName: the host this instance runs on.
NodeName == "self"
RemoteHosts == {"a", "b"}
Hosts == {NodeName} \cup RemoteHosts
\* nodes.Items comes back from List in a fixed (name) order.
HostOrder == <<"a", "b", "self">>
Workers == {"w1", "w2"}

\* wgtypes.Key values (parsed, 32 bytes): the keys of remote hosts, which the
\* device may have as peers, and the device's own key.
Keys == {"K1", "K2"}
OwnKey == "K0"
\* r.OverlayIP.
OverlayIP == "10.0.0.1"
\* An annotation that is not in the map.
Unset == "<unset>"

\* wgtypes.ParseKey: base64 text to key.  Go's StdEncoding is not strict
\* about the unused trailing bits, so "k1x" is a second spelling of K1;
\* anything that does not decode to 32 bytes is an error.
Decode ==
    [s \in {"k0", "k1", "k1x", "k2"} |->
        IF s = "k0" THEN "K0" ELSE IF s = "k2" THEN "K2" ELSE "K1"]
ParseKey(s) ==
    IF s \in DOMAIN Decode THEN [ok |-> TRUE, key |-> Decode[s]]
                           ELSE [ok |-> FALSE, key |-> "none"]
\* wgtypes.Key.String: the canonical base64 text of a key.
KeyString(k) == IF k = "K0" THEN "k0" ELSE IF k = "K1" THEN "k1" ELSE "k2"
\* r.WgDevice.PublicKey.String().
DevicePublicKey == KeyString(OwnKey)

\* ------------------------------------------------------------ node records
\* A v1.Node as far as the reconciler reads it: whether it exists, whether
\* its Annotations map is nil, and the two annotations.
NoNode == [present |-> FALSE, nilmap |-> TRUE, ip |-> Unset, pub |-> Unset]
MkNode(ip, pub) == [present |-> TRUE, nilmap |-> FALSE, ip |-> ip, pub |-> pub]
BareNode == [present |-> TRUE, nilmap |-> TRUE, ip |-> Unset, pub |-> Unset]

\* n.Annotations[name]: the value and whether it is there ("" when not).
Lookup(v) == IF v = Unset THEN [val |-> "", ok |-> FALSE]
                          ELSE [val |-> v, ok |-> TRUE]

\* What the node store may hold for a remote host and for the local host.
RemoteRecords ==
    {NoNode, BareNode} \cup {MkNode("10.0.0.2", p) : p \in {"bad", "k1", "k1x", "k2"}}
SelfRecords ==
    {NoNode, BareNode, MkNode(OverlayIP, DevicePublicKey),
     MkNode(OverlayIP, "k1"), MkNode("10.9.9.9", DevicePublicKey)}
RecordsOf(h) == IF h = NodeName THEN SelfRecords ELSE RemoteRecords
\* The records the node store moves between in the behaviours with two
\* workers: hosts come and go and change keys, and the local record is right
\* or carries another overlay address.
ConcRecords ==
    {NoNode, MkNode("10.0.0.2", "k1"), MkNode("10.0.0.2", "k2"),
     MkNode(OverlayIP, DevicePublicKey), MkNode("10.9.9.9", DevicePublicKey)}

\* The key a record publishes, "none" when it publishes no usable key.
PublishedKey(rec) ==
    IF rec.present /\ ParseKey(Lookup(rec.pub).val).ok
    THEN ParseKey(Lookup(rec.pub).val).key ELSE "none"

\* Hosts generate their own key pairs: no two records publish the same key.
UniqueKeys(m) ==
    \A h1, h2 \in Hosts :
        (h1 # h2 /\ PublishedKey(m[h1]) # "none") => PublishedKey(m[h1]) # PublishedKey(m[h2])

\* ---------------------------------------------------------------- the cache
\* r.cache: map[string]string, host name to public key text.  A nil map
\* reads as an empty one (len, lookup and delete work on it).
EmptyMap == [h \in {} |-> ""]
put(c, key, val) == [h \in DOMAIN c \cup {key} |-> IF h = key THEN val ELSE c[h]]
\* (mutant) del that leaves the entry in the map.
delKeepsEntry(c, key) == c
del(c, key) == [h \in DOMAIN c \ {key} |-> c[h]]
get(c, key) == IF key \in DOMAIN c THEN [val |-> c[key], ok |-> TRUE]
                                   ELSE [val |-> "", ok |-> FALSE]

VARIABLES
    members,        \* the node store: host -> record
    events,         \* how many more times the node store changes
    dev,            \* the device's peer table (set of keys)
    wgDevicePeers,  \* r.WgDevice.Peers: the device state read at construction
    cache,          \* r.cache
    made,           \* whether r.cache has been allocated (it starts nil)
    faulty,         \* whether collaborator calls may fail in this behaviour
    active,         \* the workers that take notifications
    pc,             \* per worker: where its Reconcile invocation stands
    req,            \* per worker: req.Name
    node,           \* per worker: the node Get returned
    peer,           \* per worker: the key of the peer it configures
    nodes,          \* per worker: the pub annotations List returned
    todo,           \* per worker: hosts the hydration loop has still to visit
    hyd,            \* per worker: what hydration did in this invocation
    res,            \* per worker: what Reconcile returned
    calls,          \* per worker: the ConfigureDevice calls of this invocation
    failed,         \* per worker: the collaborator calls that failed in it
    pre,            \* per worker (history): the cache when the invocation started
    mid,            \* per worker (history): the cache after hydrate-if-needed
    retrying,       \* per worker (history): the invocation is the requeue of
                    \* one whose device call failed
    seen,           \* per worker (history): how many record changes were
                    \* still to come when its r.Get was answered
    cfgOk           \* per remote host: successful add/update calls since its
                    \* record last changed

vars == <<members, events, dev, wgDevicePeers, cache, made, faulty, active, pc, req,
          node, peer, nodes, todo, hyd, res, calls, failed, pre, mid,
          retrying, seen, cfgOk>>

envVars == <<members, events, cfgOk>>
locals == <<node, peer, nodes, todo, hyd, res, calls, failed, pre, mid, retrying, seen>>

\* ------------------------------------------------------------ pure helpers
\* Whether notifications are dispatched to more than one worker.
Concurrent == Cardinality(active) > 1

\* wireguard.FromNode: the candidate peer of a node record, or an error when
\* the record publishes no usable public key.
FromNode(n) ==
    IF ParseKey(Lookup(n.pub).val).ok
    THEN [ok |-> TRUE, key |-> ParseKey(Lookup(n.pub).val).key]
    ELSE [ok |-> FALSE, key |-> "none"]

\* wgctrl ConfigureDevice with one PeerConfig and ReplacePeers unset: Remove
\* deletes the peer with that key, otherwise the peer is added or updated;
\* every other peer of the device stays.
ConfigureDevice(d, key, remove) == IF remove THEN d \ {key} ELSE d \cup {key}

\* (mutant) Line 95 comparing the cached text with the key, not its text.
CacheHitOnKey(c, name, key) == get(c, name).ok /\ get(c, name).val = key
\* Line 95: the cached text equals the candidate key's canonical text.
CacheHit(c, name, key) == get(c, name).ok /\ get(c, name).val = KeyString(key)

\* Lines 165-168: the texts of the keys in r.WgDevice.Peers.
knownPeers == {KeyString(k) : k \in wgDevicePeers}

\* (mutant) Line 173 without the test against the device's peers: every
\* non-empty published text is seeded.
HydrateMatchAny(publicKey) == publicKey # ""
\* Line 173: does hydration seed an entry for a node that publishes publicKey.
HydrateMatch(publicKey) == publicKey \in knownPeers /\ publicKey # ""

\* Lines 113 and 119: Annotate's two comparisons.
NeedsUpdate(n) ==
    \/ ~Lookup(n.ip).ok \/ Lookup(n.ip).val # OverlayIP
    \/ ~Lookup(n.pub).ok \/ Lookup(n.pub).val # DevicePublicKey

\* The results a collaborator call can have in this behaviour.
Outcomes == IF faulty THEN BOOLEAN ELSE {TRUE}

\* nodes.Items as the loop visits them.
ListedOrder(m) == SelectSeq(HostOrder, LAMBDA h : m[h].present)

IdleLocals(w) ==
    /\ node' = [node EXCEPT ![w] = NoNode]
    /\ peer' = [peer EXCEPT ![w] = "none"]
    /\ nodes' = [nodes EXCEPT ![w] = EmptyMap]
    /\ todo' = [todo EXCEPT ![w] = <<>>]
    /\ hyd' = [hyd EXCEPT ![w] = "no"]
    /\ res' = [res EXCEPT ![w] = "none"]
    /\ calls' = [calls EXCEPT ![w] = <<>>]
    /\ failed' = [failed EXCEPT ![w] = {}]
    /\ mid' = [mid EXCEPT ![w] = EmptyMap]
    /\ seen' = [seen EXCEPT ![w] = 0]

\* Reconcile returns v.
Finish(w, v) ==
    /\ pc' = [pc EXCEPT ![w] = "done"]
    /\ res' = [res EXCEPT ![w] = v]

\* One ConfigureDevice call as the invocation's history keeps it: the key,
\* the Remove flag, the result, and the cache entry of req.Name at the call.
Call(w, key, remove, ok) ==
    [key |-> key, remove |-> remove, ok |-> ok, entry |-> get(cache, req[w])]

\* The count of successful add/update calls for host n's published key, kept
\* in the sequential runs.
Counted(n, key) ==
    IF ~Concurrent /\ PublishedKey(members[n]) = key /\ cfgOk[n] < MaxCount
    THEN [cfgOk EXCEPT ![n] = @ + 1] ELSE cfgOk

\* ------------------------------------------------------------------- Init
\* The node stores the process may start against: every combination of
\* records in which the local node exists and publishes no key or its own.
InitialClusters ==
    {m \in [Hosts -> RemoteRecords \cup SelfRecords] :
        /\ \A h \in Hosts : m[h] \in RecordsOf(h)
        /\ m[NodeName].present
        /\ PublishedKey(m[NodeName]) \in {"none", OwnKey}
        /\ UniqueKeys(m)}

\* The start of the behaviours with two workers: both remote hosts publish
\* a key, and the device has no peer or has the peer of host "a".
ConcClusters ==
    {m \in InitialClusters :
        /\ m[NodeName] = MkNode(OverlayIP, DevicePublicKey)
        /\ m["a"] = MkNode("10.0.0.2", "k1")
        /\ m["b"] = MkNode("10.0.0.2", "k2")}
ConcPeers == {{}, {"K1"}}

InitCommon(budget, clusters, peerTables) ==
    /\ members \in clusters
    /\ events = budget
    /\ dev \in peerTables
    /\ wgDevicePeers = dev
    /\ cache = EmptyMap
    /\ made = FALSE
    /\ pc = [w \in Workers |-> "idle"]
    /\ req = [w \in Workers |-> NodeName]
    /\ node = [w \in Workers |-> NoNode]
    /\ peer = [w \in Workers |-> "none"]
    /\ nodes = [w \in Workers |-> EmptyMap]
    /\ todo = [w \in Workers |-> <<>>]
    /\ hyd = [w \in Workers |-> "no"]
    /\ res = [w \in Workers |-> "none"]
    /\ calls = [w \in Workers |-> <<>>]
    /\ failed = [w \in Workers |-> {}]
    /\ pre = [w \in Workers |-> EmptyMap]
    /\ mid = [w \in Workers |-> EmptyMap]
    /\ retrying = [w \in Workers |-> FALSE]
    /\ seen = [w \in Workers |-> 0]
    /\ cfgOk = [h \in RemoteHosts |-> 0]

\* One notification at a time, collaborator calls may fail.
Init == InitCommon(MaxEvents, InitialClusters, SUBSET Keys) /\ faulty = TRUE /\ active = {"w1"}

\* Two workers (MaxConcurrentReconciles > 1), every collaborator call succeeds.
InitConc == InitCommon(MaxConcEvents, ConcClusters, ConcPeers) /\ faulty = FALSE /\ active = Workers

\* ------------------------------------------------------- the node store
\* No panic is recovered in this file: a panicking invocation ends the process,
\* and nothing of it takes another step.
Crashed == \E w \in Workers : res[w] = "panic"

\* What the history variables pre and mid record of the cache: its value in
\* the sequential runs, where the claims about one invocation's effect on the
\* cache are stated; nothing when invocations overlap.
Observed == IF Concurrent THEN EmptyMap ELSE cache

\* The cluster creates, updates or deletes the record of host h.  With one
\* worker the runs are sequences of whole invocations and the record changes
\* between them; with several it changes at any step.
SetRecord(h, v) ==
    /\ events > 0 /\ ~Crashed
    /\ IF Concurrent THEN v \in ConcRecords ELSE \A w \in Workers : pc[w] = "idle"
    /\ v # members[h]
    /\ UniqueKeys([members EXCEPT ![h] = v])
    /\ members' = [members EXCEPT ![h] = v]
    /\ events' = events - 1
    /\ cfgOk' = [n \in RemoteHosts |-> IF n = h THEN 0 ELSE cfgOk[n]]
    /\ UNCHANGED <<dev, wgDevicePeers, made, cache, faulty, active, pc, req>>
    /\ UNCHANGED locals

\* --------------------------------------------------------------- Reconcile
\* The controller hands worker w a notification for host n.
Start(w, n) ==
    /\ w \in active
    /\ pc[w] = "idle" /\ ~Crashed
    /\ pc' = [pc EXCEPT ![w] = "check"]
    /\ req' = [req EXCEPT ![w] = n]
    /\ pre' = [pre EXCEPT ![w] = Observed]
    /\ UNCHANGED <<dev, wgDevicePeers, made, cache, faulty, active>>
    /\ UNCHANGED <<node, peer, nodes, todo, hyd, res, calls, failed, mid, retrying, seen>>
    /\ UNCHANGED envVars

\* (mutant) Line 50 guarded by an "already hydrated" flag: hydration runs
\* only until one has rebuilt the cache.
CheckEmptyOnce(w) ==
    /\ pc[w] = "check" /\ ~Crashed
    /\ pc' = [pc EXCEPT ![w] = IF DOMAIN cache = {} /\ ~made THEN "list" ELSE "fetch"]
    /\ UNCHANGED <<dev, wgDevicePeers, made, cache, faulty, active, req>>
    /\ UNCHANGED locals
    /\ UNCHANGED envVars

\* Line 50: len(r.cache) == 0, read without the lock.
CheckEmpty(w) ==
    /\ pc[w] = "check" /\ ~Crashed
    /\ pc' = [pc EXCEPT ![w] = IF DOMAIN cache = {} THEN "list" ELSE "fetch"]
    /\ UNCHANGED <<dev, wgDevicePeers, made, cache, faulty, active, req>>
    /\ UNCHANGED locals
    /\ UNCHANGED envVars

\* Lines 158-163: r.Client.List; a failure is logged and hydration returns.
HydrateList(w) ==
    /\ pc[w] = "list" /\ ~Crashed
    /\ \E ok \in Outcomes :
        IF ok
        THEN /\ nodes' = [nodes EXCEPT ![w] =
                    [h \in {x \in Hosts : members[x].present} |-> Lookup(members[h].pub).val]]
             /\ todo' = [todo EXCEPT ![w] = ListedOrder(members)]
             /\ pc' = [pc EXCEPT ![w] = "reset"]
             /\ UNCHANGED <<hyd, failed>>
        ELSE /\ hyd' = [hyd EXCEPT ![w] = "failed"]
             /\ failed' = [failed EXCEPT ![w] = @ \cup {"list"}]
             /\ pc' = [pc EXCEPT ![w] = "fetch"]
             /\ UNCHANGED <<nodes, todo>>
    /\ UNCHANGED <<dev, wgDevicePeers, made, cache, faulty, active, req>>
    /\ UNCHANGED <<node, peer, res, calls, pre, mid, retrying, seen>>
    /\ UNCHANGED envVars

\* Line 170: r.cache = make(map[string]string), written without the lock.
HydrateReset(w) ==
    /\ pc[w] = "reset" /\ ~Crashed
    /\ cache' = EmptyMap
    /\ made' = TRUE
    /\ pc' = [pc EXCEPT ![w] = IF todo[w] = <<>> THEN "fetch" ELSE "fill"]
    /\ hyd' = [hyd EXCEPT ![w] = IF todo[w] = <<>> THEN "done" ELSE "running"]
    /\ UNCHANGED <<dev, wgDevicePeers, faulty, active, req>>
    /\ UNCHANGED <<node, peer, nodes, todo, res, calls, failed, pre, mid, retrying, seen>>
    /\ UNCHANGED envVars

\* Lines 171-176: one turn of the loop over nodes.Items.
HydratePut(w) ==
    /\ pc[w] = "fill" /\ ~Crashed
    /\ LET n == Head(todo[w])
           publicKey == nodes[w][n]
       IN  /\ cache' = IF HydrateMatch(publicKey) THEN put(cache, n, publicKey) ELSE cache
           /\ todo' = [todo EXCEPT ![w] = Tail(@)]
           /\ pc' = [pc EXCEPT ![w] = IF Tail(todo[w]) = <<>> THEN "fetch" ELSE "fill"]
           /\ hyd' = [hyd EXCEPT ![w] = IF Tail(todo[w]) = <<>> THEN "done" ELSE "running"]
    /\ UNCHANGED <<dev, wgDevicePeers, made, faulty, active, req>>
    /\ UNCHANGED <<node, peer, nodes, res, calls, failed, pre, mid, retrying, seen>>
    /\ UNCHANGED envVars

\* (mutant) Line 59 returning nil for a failed Get.
GetFailedSwallowed == "ok"
\* What Reconcile returns when r.Get fails with another error than not-found
\* (line 59).
GetFailedResult == "err"

\* Lines 56-60 and 79: r.Get, and the branch the result selects.
Fetch(w) ==
    /\ pc[w] = "fetch" /\ ~Crashed
    /\ mid' = [mid EXCEPT ![w] = Observed]
    /\ nodes' = [nodes EXCEPT ![w] = EmptyMap]
    /\ \E ok \in Outcomes :
        IF ~ok
        THEN /\ failed' = [failed EXCEPT ![w] = @ \cup {"get"}]
             /\ Finish(w, GetFailedResult)
             /\ UNCHANGED <<node, seen>>
        ELSE /\ node' = [node EXCEPT ![w] = members[req[w]]]
             /\ seen' = [seen EXCEPT ![w] = IF Concurrent THEN events ELSE 0]
             /\ pc' = [pc EXCEPT ![w] =
                    IF ~members[req[w]].present THEN "gone"
                    ELSE IF req[w] = NodeName THEN "self" ELSE "peer"]
             /\ UNCHANGED <<failed, res>>
    /\ UNCHANGED <<dev, wgDevicePeers, made, cache, faulty, active, req>>
    /\ UNCHANGED <<peer, todo, hyd, calls, pre, retrying>>
    /\ UNCHANGED envVars

\* Lines 61-66: the not-found branch reads the cache and parses the entry.
GoneLookup(w) ==
    /\ pc[w] = "gone" /\ ~Crashed
    /\ IF ~get(cache, req[w]).ok THEN Finish(w, "ok")
       ELSE IF ~ParseKey(get(cache, req[w]).val).ok THEN Finish(w, "err")
       ELSE pc' = [pc EXCEPT ![w] = "remove"] /\ UNCHANGED res
    /\ peer' = [peer EXCEPT ![w] = ParseKey(get(cache, req[w]).val).key]
    /\ UNCHANGED <<dev, wgDevicePeers, made, cache, faulty, active, req>>
    /\ UNCHANGED <<node, nodes, todo, hyd, calls, failed, pre, mid, retrying, seen>>
    /\ UNCHANGED envVars

\* Lines 67-73: ReconcilePeer(peerToDelete, true).
Remove(w) ==
    /\ pc[w] = "remove" /\ ~Crashed
    /\ \E ok \in Outcomes :
        /\ calls' = [calls EXCEPT ![w] = Append(@, Call(w, peer[w], TRUE, ok))]
        /\ IF ok
           THEN /\ dev' = ConfigureDevice(dev, peer[w], TRUE)
                /\ pc' = [pc EXCEPT ![w] = "del"]
                /\ UNCHANGED <<failed, res>>
           ELSE /\ failed' = [failed EXCEPT ![w] = @ \cup {"configure"}]
                /\ Finish(w, "err")
                /\ UNCHANGED dev
    /\ UNCHANGED <<wgDevicePeers, made, cache, faulty, active, req>>
    /\ UNCHANGED <<node, peer, nodes, todo, hyd, pre, mid, retrying, seen>>
    /\ UNCHANGED envVars

\* Line 74: r.del(req.Name).
Del(w) ==
    /\ pc[w] = "del" /\ ~Crashed
    /\ cache' = del(cache, req[w])
    /\ Finish(w, "ok")
    /\ UNCHANGED <<dev, wgDevicePeers, made, faulty, active, req>>
    /\ UNCHANGED <<node, peer, nodes, todo, hyd, calls, failed, pre, mid, retrying, seen>>
    /\ UNCHANGED envVars

\* Lines 111-124: Annotate.  Both comparisons find the annotation missing in
\* a nil map, and the assignment into a nil map panics.
Annotate(n) ==
    IF n.nilmap THEN [panic |-> TRUE, update |-> FALSE, node |-> n]
    ELSE [panic |-> FALSE, update |-> NeedsUpdate(n),
          node |-> MkNode(OverlayIP, DevicePublicKey)]

\* Lines 79-88: the local host's own record: Annotate, then r.Update when
\* Annotate asks for it.  The store refuses the write when the record is no
\* longer the one that was fetched.
SelfAnnotate(w) ==
    /\ pc[w] = "self" /\ ~Crashed
    /\ LET a == Annotate(node[w]) IN
       IF a.panic THEN Finish(w, "panic") /\ UNCHANGED <<members, failed>>
       ELSE IF ~a.update THEN Finish(w, "ok") /\ UNCHANGED <<members, failed>>
       ELSE \E ok \in Outcomes :
              IF ok /\ members[NodeName] = node[w]
              THEN /\ members' = [members EXCEPT ![NodeName] = a.node]
                   /\ Finish(w, "ok")
                   /\ UNCHANGED failed
              ELSE /\ failed' = [failed EXCEPT ![w] = @ \cup {"update"}]
                   /\ Finish(w, "err")
                   /\ UNCHANGED members
    /\ UNCHANGED <<dev, wgDevicePeers, made, cache, faulty, active, req>>
    /\ UNCHANGED <<node, peer, nodes, todo, hyd, calls, pre, mid, retrying, seen>>
    /\ UNCHANGED <<events, cfgOk>>

\* (mutant) Line 93 returning the error of FromNode.
UnreadyReturnsError == "err"
\* What Reconcile returns for a node FromNode rejects (line 93).
UnreadyResult == "ok"

\* (mutant) Lines 90-94 treating a record that lost its key as a deleted
\* host: the cached peer is handed to the removal path.
PeerLookupRemovesUnready(w) ==
    /\ pc[w] = "peer" /\ ~Crashed
    /\ LET p == FromNode(node[w]) IN
       IF ~p.ok
       THEN IF get(cache, req[w]).ok /\ ParseKey(get(cache, req[w]).val).ok
            THEN /\ pc' = [pc EXCEPT ![w] = "remove"]
                 /\ peer' = [peer EXCEPT ![w] = ParseKey(get(cache, req[w]).val).key]
                 /\ UNCHANGED res
            ELSE Finish(w, UnreadyResult) /\ UNCHANGED peer
       ELSE IF CacheHit(cache, req[w], p.key) THEN Finish(w, "ok") /\ UNCHANGED peer
       ELSE /\ pc' = [pc EXCEPT ![w] = "add"]
            /\ peer' = [peer EXCEPT ![w] = p.key]
            /\ UNCHANGED res
    /\ UNCHANGED <<dev, wgDevicePeers, made, cache, faulty, active, req>>
    /\ UNCHANGED <<node, nodes, todo, hyd, calls, failed, pre, mid, retrying, seen>>
    /\ UNCHANGED envVars

\* Lines 90-98: FromNode, then the cache lookup that decides whether the
\* device is touched.
PeerLookup(w) ==
    /\ pc[w] = "peer" /\ ~Crashed
    /\ LET p == FromNode(node[w]) IN
       IF ~p.ok THEN Finish(w, UnreadyResult) /\ UNCHANGED peer
       ELSE IF CacheHit(cache, req[w], p.key) THEN Finish(w, "ok") /\ UNCHANGED peer
       ELSE /\ pc' = [pc EXCEPT ![w] = "add"]
            /\ peer' = [peer EXCEPT ![w] = p.key]
            /\ UNCHANGED res
    /\ UNCHANGED <<dev, wgDevicePeers, made, cache, faulty, active, req>>
    /\ UNCHANGED <<node, nodes, todo, hyd, calls, failed, pre, mid, retrying, seen>>
    /\ UNCHANGED envVars

\* (mutant) Lines 99-105 with r.put moved before the error check: the entry
\* is written whether or not ConfigureDevice succeeded.
AddPutsBeforeCheck(w) ==
    /\ pc[w] = "add" /\ ~Crashed
    /\ \E ok \in Outcomes :
        /\ calls' = [calls EXCEPT ![w] = Append(@, Call(w, peer[w], FALSE, ok))]
        /\ cache' = put(cache, req[w], KeyString(peer[w]))
        /\ IF ok
           THEN /\ dev' = ConfigureDevice(dev, peer[w], FALSE)
                /\ cfgOk' = Counted(req[w], peer[w])
                /\ Finish(w, "ok")
                /\ UNCHANGED failed
           ELSE /\ failed' = [failed EXCEPT ![w] = @ \cup {"configure"}]
                /\ Finish(w, "err")
                /\ UNCHANGED <<dev, cfgOk>>
    /\ UNCHANGED <<wgDevicePeers, made, faulty, active, req>>
    /\ UNCHANGED <<node, peer, nodes, todo, hyd, pre, mid, retrying, seen>>
    /\ UNCHANGED <<members, events>>

\* Lines 99-103: ReconcilePeer(peer, false).
Add(w) ==
    /\ pc[w] = "add" /\ ~Crashed
    /\ \E ok \in Outcomes :
        /\ calls' = [calls EXCEPT ![w] = Append(@, Call(w, peer[w], FALSE, ok))]
        /\ IF ok
           THEN /\ dev' = ConfigureDevice(dev, peer[w], FALSE)
                /\ cfgOk' = Counted(req[w], peer[w])
                /\ pc' = [pc EXCEPT ![w] = "put"]
                /\ UNCHANGED <<failed, res>>
           ELSE /\ failed' = [failed EXCEPT ![w] = @ \cup {"configure"}]
                /\ Finish(w, "err")
                /\ UNCHANGED <<dev, cfgOk>>
    /\ UNCHANGED <<wgDevicePeers, made, cache, faulty, active, req>>
    /\ UNCHANGED <<node, peer, nodes, todo, hyd, pre, mid, retrying, seen>>
    /\ UNCHANGED <<members, events>>

\* (mutant) Line 105 left out: the added peer is never recorded.
PutForgets(w) ==
    /\ pc[w] = "put" /\ ~Crashed
    /\ cache' = cache /\ Finish(w, "ok")
    /\ UNCHANGED <<dev, wgDevicePeers, made, faulty, active, req>>
    /\ UNCHANGED <<node, peer, nodes, todo, hyd, calls, failed, pre, mid, retrying, seen>>
    /\ UNCHANGED envVars

\* Line 105: r.put(node.Name, peer.PublicKey.String()).  Line 33 assigns into
\* r.cache, which is nil until a hydration has passed line 170: the
\* assignment into a nil map panics.
Put(w) ==
    /\ pc[w] = "put" /\ ~Crashed
    /\ IF made THEN cache' = put(cache, req[w], KeyString(peer[w])) /\ Finish(w, "ok")
               ELSE cache' = cache /\ Finish(w, "panic")
    /\ UNCHANGED <<dev, wgDevicePeers, made, faulty, active, req>>
    /\ UNCHANGED <<node, peer, nodes, todo, hyd, calls, failed, pre, mid, retrying, seen>>
    /\ UNCHANGED envVars

\* The invocation has returned; the worker is free for the next notification.
Return(w) ==
    /\ pc[w] = "done" /\ ~Crashed
    /\ pc' = [pc EXCEPT ![w] = "idle"]
    /\ req' = [req EXCEPT ![w] = NodeName]
    /\ IdleLocals(w)
    /\ pre' = [pre EXCEPT ![w] = EmptyMap]
    /\ retrying' = [retrying EXCEPT ![w] = FALSE]
    /\ UNCHANGED <<dev, wgDevicePeers, made, cache, faulty, active>>
    /\ UNCHANGED envVars

\* The controller requeues a request whose Reconcile returned an error: the
\* same notification is handed to the worker again.
Requeue(w) ==
    /\ pc[w] = "done" /\ ~Crashed
    /\ res[w] = "err"
    /\ pc' = [pc EXCEPT ![w] = "check"]
    /\ IdleLocals(w)
    /\ pre' = [pre EXCEPT ![w] = Observed]
    /\ retrying' = [retrying EXCEPT ![w] = "configure" \in failed[w]]
    /\ UNCHANGED <<dev, wgDevicePeers, made, cache, faulty, active, req>>
    /\ UNCHANGED envVars

Next ==
    \/ \E h \in Hosts : \E v \in RecordsOf(h) : SetRecord(h, v)
    \/ \E w \in Workers : \E n \in Hosts : Start(w, n)
    \/ \E w \in Workers : CheckEmpty(w)
    \/ \E w \in Workers : HydrateList(w)
    \/ \E w \in Workers : HydrateReset(w)
    \/ \E w \in Workers : HydratePut(w)
    \/ \E w \in Workers : Fetch(w)
    \/ \E w \in Workers : GoneLookup(w)
    \/ \E w \in Workers : Remove(w)
    \/ \E w \in Workers : Del(w)
    \/ \E w \in Workers : SelfAnnotate(w)
    \/ \E w \in Workers : PeerLookup(w)
    \/ \E w \in Workers : Add(w)
    \/ \E w \in Workers : Put(w)
    \/ \E w \in Workers : Return(w)
    \/ \E w \in Workers : Requeue(w)

Spec == Init /\ [][Next]_vars

SpecConc == InitConc /\ [][Next]_vars

\* ================================================================== claims
Done(w) == pc[w] = "done"
\* The invocation of w fetched the record of a remote host and found it.
FoundRemote(w) ==
    Done(w) /\ req[w] \in RemoteHosts /\ "get" \notin failed[w] /\ node[w].present
\* The invocation of w fetched its record and the store answered not-found.
SawNotFound(w) == Done(w) /\ "get" \notin failed[w] /\ ~node[w].present
\* The successful add/update calls of the invocation of w.
SuccAdds(w) ==
    Cardinality({i \in DOMAIN calls[w] : calls[w][i].ok /\ ~calls[w][i].remove})
\* The texts of the keys of the peers the device has now.
DevicePeerTexts == {KeyString(k) : k \in dev}

\* C1 (idempotence).  While the record of a remote host N is unchanged and
\* publishes a valid key K, at most one add/update call for K succeeds; an
\* invocation for N that finds the record, and starts after that call or with
\* K already cached for N, makes no device call, returns success and leaves
\* the cache as it found it.
C1_Idempotent ==
    /\ \A n \in RemoteHosts : cfgOk[n] <= 1
    /\ \A w \in Workers :
        (FoundRemote(w) /\ FromNode(node[w]).ok /\
            (cfgOk[req[w]] >= SuccAdds(w) + 1 \/ CacheHit(pre[w], req[w], FromNode(node[w]).key)))
        => (calls[w] = <<>> /\ res[w] = "ok" /\ cache = pre[w])
\* A later notification for an unchanged, already configured host has returned.
C1_Witness ==
    \E w \in Workers :
        /\ FoundRemote(w) /\ FromNode(node[w]).ok
        /\ cfgOk[req[w]] = 1 /\ calls[w] = <<>> /\ res[w] = "ok"

\* C2 (eventual removal).  An invocation that finds N's record not-found while
\* the cache has an entry K for N makes exactly one device call, the removal
\* of K, and when it succeeds the entry of N is gone and the invocation
\* returns success; an invocation that finds N not-found with no entry for N
\* makes no device call and returns success.
C2_Removal ==
    \A w \in Workers :
        SawNotFound(w) =>
            IF get(pre[w], req[w]).ok
            THEN /\ Len(calls[w]) = 1
                 /\ calls[w][1].remove
                 /\ calls[w][1].key = ParseKey(pre[w][req[w]]).key
                 /\ calls[w][1].ok => (~get(cache, req[w]).ok /\ res[w] = "ok")
            ELSE calls[w] = <<>> /\ res[w] = "ok"
\* A removal has succeeded and cleared the entry.
C2_Witness ==
    \E w \in Workers :
        /\ SawNotFound(w) /\ get(pre[w], req[w]).ok
        /\ Len(calls[w]) = 1 /\ calls[w][1].ok /\ ~get(cache, req[w]).ok

\* C3 (peer table reflects membership).  When Reconcile for a remote host
\* whose record publishes a valid key K returns success, the device has a
\* peer with key K.
C3_PeerConfigured ==
    \A w \in Workers :
        (FoundRemote(w) /\ FromNode(node[w]).ok /\ res[w] = "ok")
        => FromNode(node[w]).key \in dev

\* C4 (hydration soundness).  Right after a hydration that completed, every
\* listed host with a non-empty published key P has a cache entry, with value
\* P, exactly when the device has a peer with key P; a host with an empty or
\* unset key has none.
C4_HydrationSound ==
    \A w \in Workers :
        (pc[w] = "fetch" /\ hyd[w] = "done") =>
            \A n \in DOMAIN nodes[w] :
                IF nodes[w][n] # ""
                THEN /\ get(cache, n).ok <=> nodes[w][n] \in DevicePeerTexts
                     /\ get(cache, n).ok => cache[n] = nodes[w][n]
                ELSE ~get(cache, n).ok

\* C5 (rekey).  An invocation that starts with N cached under K1, finds N's
\* record publishing another valid key K2 and meets no failure, makes exactly
\* one device call, for K2, after which the device has peer K2 and (no record
\* publishing K1) no peer K1, and the cache entry of N is K2.
C5_Rekey ==
    \A w \in Workers :
        (/\ FoundRemote(w) /\ FromNode(node[w]).ok /\ failed[w] = {}
         /\ get(pre[w], req[w]).ok
         /\ ParseKey(pre[w][req[w]]).key # FromNode(node[w]).key
         /\ \A h \in Hosts : PublishedKey(members[h]) # ParseKey(pre[w][req[w]]).key)
        => /\ Len(calls[w]) = 1
           /\ calls[w][1].key = FromNode(node[w]).key /\ ~calls[w][1].remove
           /\ FromNode(node[w]).key \in dev
           /\ ParseKey(pre[w][req[w]]).key \notin dev
           /\ get(cache, req[w]) = [val |-> KeyString(FromNode(node[w]).key), ok |-> TRUE]

\* C6 (self is never a peer).  An invocation for the local host's own name
\* makes no device call.
C6_SelfNeverPeer ==
    \A w \in Workers : (pc[w] # "idle" /\ req[w] = NodeName) => calls[w] = <<>>

\* The invocation of w found a remote record that publishes no usable key.
Unready(w) == FoundRemote(w) /\ ~FromNode(node[w]).ok

\* C7 (unready tolerance), as claimed: no device call, success, and the whole
\* cache as it was before the notification.
C7_UnreadyKeepsCache ==
    \A w \in Workers :
        Unready(w) => (calls[w] = <<>> /\ res[w] = "ok" /\ cache = pre[w])
\* C7 as amended: no device call, success, and the cache is as the
\* hydrate-if-needed step of the same notification left it; it is the cache of
\* before the notification unless that one was empty.
C7_UnreadyKeepsHydratedCache ==
    \A w \in Workers :
        Unready(w) =>
            /\ calls[w] = <<>> /\ res[w] = "ok" /\ cache = mid[w]
            /\ pre[w] # EmptyMap => cache = pre[w]
\* An unready notification has returned after its hydration seeded the cache.
C7_Witness ==
    \E w \in Workers : Unready(w) /\ hyd[w] = "done" /\ cache # pre[w]

\* The invocation of w ended on a failed ConfigureDevice call.
ConfigureFailed(w) ==
    Done(w) /\ calls[w] # <<>> /\ ~calls[w][Len(calls[w])].ok

\* C8 (failure atomicity), as claimed: a failed device call makes Reconcile
\* return an error with the entry of N as it was before the call, and the
\* requeued notification, finding the record, makes the device call again.
C8_RetryRepeatsCall ==
    \A w \in Workers :
        /\ ConfigureFailed(w) =>
            (res[w] = "err" /\ get(cache, req[w]) = calls[w][Len(calls[w])].entry)
        /\ (Done(w) /\ retrying[w] /\ "get" \notin failed[w]) => calls[w] # <<>>
\* C8 as amended: the requeued notification makes the device call again
\* unless the cache was empty and its hydration seeded the published key of N.
C8_FailureAtomic ==
    \A w \in Workers :
        /\ ConfigureFailed(w) =>
            (res[w] = "err" /\ get(cache, req[w]) = calls[w][Len(calls[w])].entry)
        /\ (Done(w) /\ retrying[w] /\ "get" \notin failed[w]) =>
            \/ calls[w] # <<>>
            \/ /\ pre[w] = EmptyMap /\ hyd[w] = "done" /\ node[w].present
               /\ FromNode(node[w]).ok
               /\ CacheHit(mid[w], req[w], FromNode(node[w]).key)
\* A device call has failed with an entry for N in the cache, kept.
C8_Witness ==
    \E w \in Workers :
        ConfigureFailed(w) /\ calls[w][Len(calls[w])].entry.ok /\ get(cache, req[w]).ok

\* C9 (concurrent notifications for distinct hosts).  When two overlapping
\* invocations for distinct remote hosts, each finding a valid key, have both
\* returned success, the cache holds the entry each of them wrote.
C9_NoLostEntry ==
    \A w1, w2 \in Workers :
        (/\ w1 # w2 /\ req[w1] # req[w2]
         /\ FoundRemote(w1) /\ FromNode(node[w1]).ok /\ res[w1] = "ok"
         /\ FoundRemote(w2) /\ FromNode(node[w2]).ok /\ res[w2] = "ok")
        => /\ get(cache, req[w1]) = [val |-> KeyString(FromNode(node[w1]).key), ok |-> TRUE]
           /\ get(cache, req[w2]) = [val |-> KeyString(FromNode(node[w2]).key), ok |-> TRUE]

\* C10 (error propagation), as claimed: an invocation in which any call to the
\* node store or to the device failed returns an error.
C10_EveryFailureReturned ==
    \A w \in Workers : (Done(w) /\ failed[w] # {}) => res[w] = "err"
\* C10 as amended: a failed Get, Update or ConfigureDevice makes the
\* invocation return an error (a failed List does not); and a success for a
\* remote host leaves its cache entry in line with what was fetched (the
\* published key when found, none when not-found) except for a found record
\* with no usable key.
C10_ErrorsReturned ==
    \A w \in Workers :
        /\ (Done(w) /\ failed[w] \cap {"get", "update", "configure"} # {}) => res[w] = "err"
        /\ (FoundRemote(w) /\ res[w] = "ok") =>
            \/ ~FromNode(node[w]).ok
            \/ CacheHit(cache, req[w], FromNode(node[w]).key)
        /\ (SawNotFound(w) /\ res[w] = "ok") => ~get(cache, req[w]).ok
\* An invocation whose hydration failed on List has returned success.
C10_Witness ==
    \E w \in Workers : Done(w) /\ "list" \in failed[w] /\ res[w] = "ok"

\* C11 (only absence triggers removal).  Every device call with Remove set is
\* made by an invocation whose fetch answered not-found; an invocation that
\* finds the record of a cached remote host present but without a usable key
\* makes no device call at all (the device is written by nothing else), returns
\* success and leaves the cache, the entry of that host included, as it was.
C11_OnlyAbsenceRemoves ==
    \A w \in Workers :
        /\ \A i \in DOMAIN calls[w] :
            calls[w][i].remove => ("get" \notin failed[w] /\ ~node[w].present)
        /\ (Unready(w) /\ get(pre[w], req[w]).ok) =>
            (calls[w] = <<>> /\ res[w] = "ok" /\ cache = pre[w])
\* A cached host whose record lost its key has been reconciled, entry kept.
C11_Witness ==
    \E w \in Workers :
        /\ Unready(w) /\ get(pre[w], req[w]).ok
        /\ res[w] = "ok" /\ get(cache, req[w]) = get(pre[w], req[w])
        /\ ParseKey(cache[req[w]]).key \in dev

\* C12 (cache entry invariant).  Between notifications every cache entry
\* N -> K names a key that parses and that the device has as a peer.
C12_CacheEntriesConfigured ==
    (\A w \in Workers : pc[w] = "idle") =>
        \A n \in DOMAIN cache :
            ParseKey(cache[n]).ok /\ ParseKey(cache[n]).key \in dev

C14_HydrationFailureTolerated ==
    \A w \in Workers :
        (Done(w) /\ hyd[w] = "failed") =>
            /\ mid[w] = pre[w]
            /\ (FoundRemote(w) /\ FromNode(node[w]).ok /\ failed[w] = {"list"}) =>
                (res[w] = "ok" /\ CacheHit(cache, req[w], FromNode(node[w]).key))

\* The access to r.cache that the next step of worker w makes, and whether
\* it is made inside put, del or get, which hold r.mu (lines 30-46), or
\* directly: len(r.cache) at line 50, r.cache = make(...) at line 170.
CacheAccess(w) ==
    IF pc[w] = "check" THEN [kind |-> "read", locked |-> FALSE]
    ELSE IF pc[w] = "reset" THEN [kind |-> "write", locked |-> FALSE]
    ELSE IF pc[w] = "fill" /\ HydrateMatch(nodes[w][Head(todo[w])])
        THEN [kind |-> "write", locked |-> TRUE]
    ELSE IF pc[w] = "gone" \/ (pc[w] = "peer" /\ FromNode(node[w]).ok)
        THEN [kind |-> "read", locked |-> TRUE]
    ELSE IF pc[w] = "del" \/ (pc[w] = "put" /\ made)
        THEN [kind |-> "write", locked |-> TRUE]
    ELSE [kind |-> "none", locked |-> TRUE]

\* C15 (cache lock discipline).  Whenever one worker is about to write the
\* cache while another is about to read or write it, both accesses are made
\* under the lock, so that they cannot overlap.
C15_NoUnlockedOverlap ==
    \A w1, w2 \in Workers :
        (w1 # w2 /\ CacheAccess(w1).kind = "write" /\ CacheAccess(w2).kind # "none")
        => (CacheAccess(w1).locked /\ CacheAccess(w2).locked)

\* The steps of hydrateCache.
Hydrating == {"list", "reset", "fill"}

\* C16 (hydration mutual exclusion).  At most one invocation is inside
\* hydration at a time.
C16_OneHydration ==
    \A w1, w2 \in Workers :
        (pc[w1] \in Hydrating /\ pc[w2] \in Hydrating) => w1 = w2

\* Two invocations for the same remote host N have both fetched the record,
\* run without hydrating (the cache was not empty) and returned success; the
\* fetch of w2 saw the record as it was at the fetch of w1 or later.
SameHostPair(w1, w2) ==
    /\ w1 # w2 /\ req[w1] = req[w2] /\ req[w1] \in RemoteHosts
    /\ Done(w1) /\ "get" \notin failed[w1] /\ res[w1] = "ok" /\ hyd[w1] = "no"
    /\ Done(w2) /\ "get" \notin failed[w2] /\ res[w2] = "ok" /\ hyd[w2] = "no"
    /\ seen[w2] <= seen[w1]
\* The cache entry of N and the device agree with record n of N: its valid
\* key is the cached one, or, the record being absent, no entry is left and
\* no key that the two invocations added is still a peer.
AgreesWith(w1, w2, n) ==
    IF ~n.present
    THEN /\ ~get(cache, req[w2]).ok
         /\ \A w \in {w1, w2} : \A i \in DOMAIN calls[w] :
                ~calls[w][i].remove => calls[w][i].key \notin dev
    ELSE FromNode(n).ok => CacheHit(cache, req[w2], FromNode(n).key)

\* C17 (same-identity race), as claimed: after two overlapping invocations
\* for N the cache entry of N and the device are what the later fetch calls
\* for, as if the two had run one after the other.
C17_SameHostSerializable ==
    \A w1, w2 \in Workers :
        SameHostPair(w1, w2) => AgreesWith(w1, w2, node[w2])
\* C17 as amended: that holds when the record did not change between the two
\* fetches; then the race costs repeated device calls only.
C17_SameRecordSerializable ==
    \A w1, w2 \in Workers :
        (SameHostPair(w1, w2) /\ seen[w1] = seen[w2])
        => AgreesWith(w1, w2, node[w2])
\* Both invocations saw the same record and both made the device call.
C17_Witness ==
    \E w1, w2 \in Workers :
        /\ SameHostPair(w1, w2) /\ seen[w1] = seen[w2]
        /\ calls[w1] # <<>> /\ calls[w2] # <<>>

\* C18 (self-annotation).  An invocation that finds the local host's record
\* asks for the write-back exactly when the published overlay address or
\* public key differs from the real one, an unset value (or no metadata at
\* all) counting as differing: then it returns success with the record
\* holding the real values, or the error of the failed update; otherwise it
\* returns success without an update.
C18_SelfAnnotation ==
    \A w \in Workers :
        (Done(w) /\ req[w] = NodeName /\ "get" \notin failed[w] /\ node[w].present) =>
            IF NeedsUpdate(node[w])
            THEN \/ res[w] = "ok" /\ members[NodeName] = MkNode(OverlayIP, DevicePublicKey)
                 \/ res[w] = "err" /\ "update" \in failed[w]
            ELSE res[w] = "ok" /\ "update" \notin failed[w]

\* C19 (cache values are well-formed keys).  Every value in the cache parses
\* as a public key, and no invocation returns the parse error of the
\* not-found branch: a not-found invocation that returns an error made the
\* removal call and saw it fail.
C19_CacheValuesParse ==
    /\ \A n \in DOMAIN cache : ParseKey(cache[n]).ok
    /\ \A w \in Workers :
        (SawNotFound(w) /\ res[w] = "err") => ConfigureFailed(w)
\* A not-found invocation has parsed the cached entry of its host and made
\* the removal call, with other entries in the cache.
C19_Witness ==
    \E w \in Workers :
        /\ SawNotFound(w) /\ get(pre[w], req[w]).ok /\ calls[w] # <<>>
        /\ cache # EmptyMap

====
